---- MODULE Spec2Model ----
(***************************************************************************)
(* QuerySmart Email Backend (backend/main.py): one HTTP request handled by *)
(* one of the three endpoints                                              *)
(*     POST /api/email/send     send_email                                 *)
(*     GET  /api/email/inbox    inbox  (-> _imap_login, _fetch_headers)    *)
(*     GET  /api/email/message  get_message (-> _imap_login)               *)
(* The handler's pure part (token gate, validation, composition) is one    *)
(* action; every blocking network call is an action of its own whose       *)
(* outcome is chosen by the environment (the relay or the store).          *)
(*                                                                         *)
(* Python values: an Optional[X] is a record [some, val]; a str that is a  *)
(* body is a sequence of one-character strings (so that re.sub can be      *)
(* computed); addresses, subjects and tokens are TLA+ strings.             *)
(***************************************************************************)
EXTENDS Integers, Sequences, FiniteSets, TLC

VARIABLES
    ADMIN_TOKEN,   \* os.getenv("ADMIN_TOKEN"): Optional[str], fixed at start
    pc,            \* position of the request in its handler
    endpoint,      \* "none" | "send" | "inbox" | "message"
    token,         \* the X-Admin-Token header of the request
    payload,       \* SendEmailIn of a send request, once the handler reads it
    msg,           \* the EmailMessage being composed
    smtpOpen,      \* the SMTP connection of this request is open
    imapOpen,      \* the IMAP connection of this request is open
    imapSelected,  \* imaplib state SELECTED (a mailbox is selected)
    netlog,        \* network steps attempted so far, with their outcomes
    folder,        \* query parameter folder
    criteria,      \* search_criteria of _fetch_headers
    limit,         \* query parameter limit
    ids,           \* identifiers returned by the search (ascending)
    todo,          \* identifiers the loop of _fetch_headers still visits
    fetchLog,      \* per visited identifier: the outcome of its fetch
    messages,      \* the list built by _fetch_headers
    fetched,       \* outcome of the full-message fetch of get_message
    response       \* the HTTP response, status 0 while none is produced

vars == <<ADMIN_TOKEN, pc, endpoint, token, payload, msg, smtpOpen, imapOpen,
          imapSelected, netlog, folder, criteria, limit, ids, todo,
          fetchLog, messages, fetched, response>>

----------------------------------------------------------------------------
(* Bounds of the model *)

MaxBody == 3     \* longest html body, in characters
MaxText == 1     \* longest text body, in characters
MaxAddrs == 2    \* longest to / cc / bcc list
MaxMsgs == 3     \* identifiers the store can return from a search
MaxLimit == 4    \* largest |limit| of a list request

----------------------------------------------------------------------------
(* Python values *)

None == [some |-> FALSE, val |-> <<>>]
NoneStr == [some |-> FALSE, val |-> ""]
Some(v) == [some |-> TRUE, val |-> v]

\* bool(x) of an Optional list / Optional str-as-sequence: None and empty are falsy
Truthy(o) == o.some /\ o.val # <<>>
\* bool(x) of an Optional[str] held as a TLA+ string
TruthyStr(o) == o.some /\ o.val # ""

RECURSIVE SeqsUpTo(_, _)
SeqsUpTo(S, n) ==
    IF n = 0 THEN {<<>>}
    ELSE LET shorter == SeqsUpTo(S, n - 1)
         IN  shorter \cup {Append(s, c) : s \in shorter, c \in S}

Min(S) == CHOOSE m \in S : \A n \in S : m <= n

RECURSIVE Reverse(_)
Reverse(s) == IF s = <<>> THEN <<>> ELSE Append(Reverse(Tail(s)), Head(s))

\* ", ".join(list)
RECURSIVE Join(_)
Join(list) ==
    IF list = <<>> THEN ""
    ELSE IF Len(list) = 1 THEN list[1]
    ELSE list[1] \o ", " \o Join(Tail(list))

----------------------------------------------------------------------------
(* Configuration *)

FROM_ADDR == "info@querysmartaillc.com"

AdminTokens == {NoneStr, Some(""), Some("secret")}
Tokens == {NoneStr, Some(""), Some("secret"), Some("wrong")}

\* require_admin_token: TRUE when it returns, FALSE when it raises 401
require_admin_token_NoTruthiness(tok, admin) == tok = admin
require_admin_token(tok, admin) == ~ (~ TruthyStr(tok) \/ tok # admin)

----------------------------------------------------------------------------
(* Message Composer: send_email, lines 56-77 *)

\* line 56: the request is accepted when text or html is truthy
HasBody_NoneOnly(text, html) == text.some \/ html.some
HasBody(text, html) == ~ (~ Truthy(text) /\ ~ Truthy(html))

\* End (inclusive) of the match of <[^<]+?> starting at position i, 0 if none:
\* "<", then the fewest (at least one) characters other than "<", then ">".
MatchEnd(s, i) ==
    IF s[i] # "<" THEN 0
    ELSE LET ends == {j \in (i + 2)..Len(s) :
                         /\ s[j] = ">"
                         /\ \A k \in (i + 1)..(j - 1) : s[k] # "<"}
         IN  IF ends = {} THEN 0 ELSE Min(ends)

\* re.sub("<[^<]+?>", "", s) scanning from position i
RECURSIVE StripFrom(_, _)
StripFrom(s, i) ==
    IF i > Len(s) THEN <<>>
    ELSE LET j == MatchEnd(s, i)
         IN  IF j = 0 THEN <<s[i]>> \o StripFrom(s, i + 1)
             ELSE StripFrom(s, j + 1)

StripTags(s) == StripFrom(s, 1)

Part(subtype, body) == [subtype |-> subtype, body |-> body]

\* lines 66-73: the parts of the message, in order
ComposeBody_NoStrip(text, html) ==
    IF Truthy(html) /\ Truthy(text)
    THEN <<Part("plain", text.val), Part("html", html.val)>>
    ELSE IF Truthy(html)
    THEN <<Part("plain", html.val), Part("html", html.val)>>
    ELSE <<Part("plain", text.val)>>
ComposeBody(text, html) ==
    IF Truthy(html) /\ Truthy(text)
    THEN <<Part("plain", text.val), Part("html", html.val)>>
    ELSE IF Truthy(html)
    THEN <<Part("plain", StripTags(html.val)), Part("html", html.val)>>
    ELSE <<Part("plain", text.val)>>

\* lines 59-64 and 76-77: each header is the sequence of values set for it
ComposeHeaders_AlwaysSelfCopy(p) ==
    [From    |-> <<FROM_ADDR>>,
     To      |-> <<Join(p.to)>>,
     Cc      |-> IF Truthy(p.cc) THEN <<Join(p.cc.val)>> ELSE <<>>,
     Bcc     |-> (IF Truthy(p.bcc) THEN <<Join(p.bcc.val)>> ELSE <<>>)
                 \o <<FROM_ADDR>>,
     Subject |-> <<p.subject>>]
ComposeHeaders(p) ==
    [From    |-> <<FROM_ADDR>>,
     To      |-> <<Join(p.to)>>,
     Cc      |-> IF Truthy(p.cc) THEN <<Join(p.cc.val)>> ELSE <<>>,
     Bcc     |-> (IF Truthy(p.bcc) THEN <<Join(p.bcc.val)>> ELSE <<>>)
                 \o (IF p.bcc = None THEN <<FROM_ADDR>> ELSE <<>>),
     Subject |-> <<p.subject>>]

EmptyMessage == [headers |-> [From |-> <<>>, To |-> <<>>, Cc |-> <<>>,
                              Bcc |-> <<>>, Subject |-> <<>>],
                 parts   |-> <<>>]

NoPayload == [to |-> <<>>, subject |-> "", html |-> None, text |-> None,
              cc |-> None, bcc |-> None]

----------------------------------------------------------------------------
(* Inputs *)

Chars == {"<", ">", "a"}
TextChars == {"t"}
Addrs == {"a@x.com", "b@y.org"}

OptSeqs(S, n) == {None} \cup {Some(s) : s \in SeqsUpTo(S, n)}

\* every SendEmailIn within the bounds
Payloads ==
    [to      : SeqsUpTo(Addrs, MaxAddrs),
     subject : {"Hi"},
     html    : OptSeqs(Chars, MaxBody),
     text    : OptSeqs(TextChars, MaxText),
     cc      : OptSeqs(Addrs, MaxAddrs),
     bcc     : OptSeqs(Addrs, MaxAddrs)]

\* the send requests of the end-to-end scenarios and their degenerate forms
SamplePayloads ==
    [to      : {<<>>, <<"a@x.com">>, <<"a@x.com", "b@y.org">>},
     subject : {"Hi"},
     html    : {None, Some(<<>>), Some(<<"<", "a", ">">>)},
     text    : {None, Some(<<>>), Some(<<"t">>)},
     cc      : {None, Some(<<>>), Some(<<"b@y.org">>)},
     bcc     : {None, Some(<<>>), Some(<<"b@y.org">>)}]

----------------------------------------------------------------------------
(* Responses *)

NoResponse == [status |-> 0, ok |-> FALSE, detail |-> ""]
OkResponse == [status |-> 200, ok |-> TRUE, detail |-> ""]
HTTPException(status, detail) == [status |-> status, ok |-> FALSE, detail |-> detail]

Step(name, outcome) == [step |-> name, outcome |-> outcome]

----------------------------------------------------------------------------
Init ==
    /\ ADMIN_TOKEN \in AdminTokens
    /\ pc = "idle"
    /\ endpoint = "none"
    /\ token = NoneStr
    /\ payload = NoPayload
    /\ msg = EmptyMessage
    /\ smtpOpen = FALSE
    /\ imapOpen = FALSE
    /\ imapSelected = FALSE
    /\ netlog = <<>>
    /\ folder = "inbox"
    /\ criteria = ""
    /\ limit = 0
    /\ ids = <<>>
    /\ todo = <<>>
    /\ fetchLog = <<>>
    /\ messages = <<>>
    /\ fetched = "none"
    /\ response = NoResponse

----------------------------------------------------------------------------
(* POST /api/email/send *)

\* send_email, lines 50-77: token gate, body check, composition
send_email(p, tok) ==
    /\ pc = "idle"
    /\ endpoint' = "send"
    /\ token' = tok
    /\ IF ~ require_admin_token(tok, ADMIN_TOKEN)
       THEN /\ response' = HTTPException(401, "Unauthorized")
            /\ pc' = "done"
            /\ UNCHANGED <<payload, msg>>
       ELSE IF ~ HasBody(p.text, p.html)
       THEN /\ payload' = p
            /\ response' = HTTPException(400, "Provide text or html body")
            /\ pc' = "done"
            /\ msg' = msg
       ELSE /\ payload' = p
            /\ msg' = [headers |-> ComposeHeaders(p),
                       parts   |-> ComposeBody(p.text, p.html)]
            /\ pc' = "smtp_connect"
            /\ response' = response
    /\ UNCHANGED <<ADMIN_TOKEN, smtpOpen, imapOpen, imapSelected, netlog,
                   folder, criteria, limit, ids, todo, fetchLog, messages, fetched>>

\* lines 79-86: where the handler goes after a relay step with this outcome
SmtpAfter_IgnoreFailure(step, outcome) ==
    CASE step = "smtp_connect"      -> "smtp_starttls"
      [] step = "smtp_starttls"     -> "smtp_login"
      [] step = "smtp_login"        -> "smtp_send_message"
      [] step = "smtp_send_message" -> "done"
SmtpAfter(step, outcome) ==
    IF outcome # "ok" THEN "done"
    ELSE CASE step = "smtp_connect"      -> "smtp_starttls"
           [] step = "smtp_starttls"     -> "smtp_login"
           [] step = "smtp_login"        -> "smtp_send_message"
           [] step = "smtp_send_message" -> "done"

SmtpOutcomes == {"ok", "raise"}

\* One relay step inside "with smtplib.SMTP(...) as server": leaving the with
\* block, normally or by an exception, closes the connection; an exception
\* becomes HTTPException(500, "SMTP send failed: ...").
SmtpStep(step, outcome, opens) ==
    /\ pc = step
    /\ netlog' = Append(netlog, Step(step, outcome))
    /\ pc' = SmtpAfter(step, outcome)
    /\ smtpOpen' = IF pc' = "done" THEN FALSE
                   ELSE IF opens THEN TRUE ELSE smtpOpen
    /\ response' = IF pc' # "done" THEN response
                   ELSE IF outcome = "ok" THEN OkResponse
                   ELSE HTTPException(500, "SMTP send failed")
    /\ UNCHANGED <<ADMIN_TOKEN, endpoint, token, payload, msg, imapOpen,
                   imapSelected, folder, criteria, limit, ids, todo, fetchLog,
                   messages, fetched>>

\* line 80: smtplib.SMTP(SMTP_HOST, SMTP_PORT, timeout=30)
smtp_connect == \E o \in SmtpOutcomes : SmtpStep("smtp_connect", o, TRUE)
\* line 81: server.starttls(context=ssl.create_default_context())
smtp_starttls == \E o \in SmtpOutcomes : SmtpStep("smtp_starttls", o, FALSE)
\* line 82: server.login(SMTP_USER, SMTP_PASS)
smtp_login == \E o \in SmtpOutcomes : SmtpStep("smtp_login", o, FALSE)
\* line 83: server.send_message(msg)
smtp_send_message == \E o \in SmtpOutcomes : SmtpStep("smtp_send_message", o, FALSE)

----------------------------------------------------------------------------
(* Mailbox Session, Header Lister, Message Reader *)

Folders == {"inbox", "sent"}
MessageIds == 1..MaxMsgs
Limits == (0 - MaxLimit)..MaxLimit

\* what a search can return: identifiers in ascending order
AscendingIds ==
    {s \in SeqsUpTo(MessageIds, MaxMsgs) :
        \A i \in 1..(Len(s) - 1) : s[i] < s[i + 1]}

\* lines 95-97: search_criteria for a from_filter (an Optional[str])
SearchCriteria(from_filter) ==
    IF TruthyStr(from_filter) THEN "(FROM \"" \o from_filter.val \o "\")"
    ELSE "(ALL)"

\* lines 137-140: the from_filter inbox passes to _fetch_headers
FromFilter(f) == IF f = "sent" THEN Some(FROM_ADDR) ELSE NoneStr

\* line 103: ids[-limit:], a Python slice with start -limit and no stop
LastN(list, lim) ==
    LET n == Len(list)
        start == IF 0 - lim < 0
                 THEN (IF n - lim < 0 THEN 0 ELSE n - lim)
                 ELSE (IF 0 - lim > n THEN n ELSE 0 - lim)
    IN  SubSeq(list, start + 1, n)

\* lines 103-105: the identifiers the loop visits, in visiting order
Selected(list, lim) == Reverse(LastN(list, lim))

\* header blocks a successful per-message fetch can carry
RawHeaders ==
    {[Subject |-> NoneStr, From |-> NoneStr, Date |-> NoneStr, MessageID |-> NoneStr],
     [Subject |-> Some("Hi"), From |-> Some("a@x.com"),
      Date |-> Some("Mon, 1 Jan 2024"), MessageID |-> Some("<1@x.com>")]}

NoHeaders == CHOOSE h \in RawHeaders : ~ h.Subject.some

\* hdr.get(name, default)
Get(field, default) == IF field.some THEN field.val ELSE default

\* lines 114-124: the summary appended for uid
Summary(uid, hdr) ==
    [uid        |-> ToString(uid),
     subject    |-> Get(hdr.Subject, "(no subject)"),
     from       |-> Get(hdr.From, ""),
     date       |-> Get(hdr.Date, ""),
     message_id |-> Get(hdr.MessageID, "")]

\* line 107: the fetch result counts as "no data for this identifier"
NoData(outcome) == outcome \in {"no", "empty", "null"}

\* lines 143-144 / 188-189: "except Exception as e" of the two read handlers
ImapExcept(ep, cause) ==
    HTTPException(500, (IF ep = "inbox" THEN "IMAP fetch failed: "
                        ELSE "IMAP read failed: ") \o cause)

\* lines 157-187 inside the try of get_message: HTTPException is an Exception,
\* so the 404 raised on line 158 is caught by line 188
GetMessageResult(outcome) ==
    IF NoData(outcome) THEN ImapExcept("message", "Message not found")
    ELSE OkResponse

\* GET /api/email/inbox, lines 128-134
inbox(f, lim, tok) ==
    /\ pc = "idle"
    /\ endpoint' = "inbox"
    /\ token' = tok
    /\ IF ~ require_admin_token(tok, ADMIN_TOKEN)
       THEN /\ response' = HTTPException(401, "Unauthorized")
            /\ pc' = "done"
            /\ UNCHANGED <<folder, limit>>
       ELSE /\ pc' = "imap_connect"
            /\ folder' = f
            /\ limit' = lim
            /\ response' = response
    /\ UNCHANGED <<ADMIN_TOKEN, payload, msg, smtpOpen, imapOpen, imapSelected,
                   netlog, criteria, ids, todo, fetchLog, messages, fetched>>

\* GET /api/email/message, lines 147-152; the id only names what is fetched
get_message(tok) ==
    /\ pc = "idle"
    /\ endpoint' = "message"
    /\ token' = tok
    /\ IF ~ require_admin_token(tok, ADMIN_TOKEN)
       THEN /\ response' = HTTPException(401, "Unauthorized")
            /\ pc' = "done"
       ELSE /\ pc' = "imap_connect"
            /\ response' = response
    /\ UNCHANGED <<ADMIN_TOKEN, payload, msg, smtpOpen, imapOpen, imapSelected,
                   netlog, folder, criteria, limit, ids, todo, fetchLog,
                   messages, fetched>>

\* An exception inside the try of inbox / get_message: the handler answers 500;
\* no except or finally clause calls M.logout(), imapOpen is left as it is.
ImapRaise(step, cause) ==
    /\ netlog' = Append(netlog, Step(step, "raise"))
    /\ response' = ImapExcept(endpoint, cause)
    /\ pc' = "done"

\* line 89: M = imaplib.IMAP4_SSL(IMAP_HOST); a failed constructor leaves no
\* connection behind
imap_connect ==
    /\ pc = "imap_connect"
    /\ \/ /\ netlog' = Append(netlog, Step("imap_connect", "ok"))
          /\ imapOpen' = TRUE
          /\ pc' = "imap_login"
          /\ response' = response
       \/ /\ ImapRaise("imap_connect", "connect")
          /\ imapOpen' = imapOpen
    /\ UNCHANGED <<ADMIN_TOKEN, endpoint, token, payload, msg, smtpOpen,
                   imapSelected, folder, criteria, limit, ids, todo, fetchLog,
                   messages, fetched>>

\* line 90: M.login(IMAP_USER, IMAP_PASS); imaplib raises on a non-OK reply
imap_login ==
    /\ pc = "imap_login"
    /\ \/ /\ netlog' = Append(netlog, Step("imap_login", "ok"))
          /\ pc' = "imap_select"
          /\ response' = response
       \/ ImapRaise("imap_login", "login")
    /\ UNCHANGED <<ADMIN_TOKEN, endpoint, token, payload, msg, smtpOpen,
                   imapOpen, imapSelected, folder, criteria, limit, ids, todo,
                   fetchLog, messages, fetched>>

\* lines 94 and 154: M.select("INBOX"); the returned status is not looked at.
\* After a non-OK reply imaplib is not in state SELECTED.
imap_select ==
    /\ pc = "imap_select"
    /\ \/ \E o \in {"ok", "no"} :
            /\ netlog' = Append(netlog, Step("imap_select", o))
            /\ imapSelected' = (o = "ok")
            /\ pc' = IF endpoint = "inbox" THEN "imap_search" ELSE "imap_fetch"
            /\ response' = response
       \/ /\ ImapRaise("imap_select", "select")
          /\ imapSelected' = imapSelected
    /\ UNCHANGED <<ADMIN_TOKEN, endpoint, token, payload, msg, smtpOpen,
                   imapOpen, folder, criteria, limit, ids, todo, fetchLog,
                   messages, fetched>>

\* lines 95-104: M.search(None, search_criteria), the slice and the reversal.
\* imaplib raises for SEARCH when no mailbox is selected.
imap_search ==
    /\ pc = "imap_search"
    /\ criteria' = SearchCriteria(FromFilter(folder))
    /\ IF ~ imapSelected
       THEN /\ ImapRaise("imap_search", "search")
            /\ UNCHANGED <<ids, todo>>
       ELSE \/ \E found \in AscendingIds :
                 /\ netlog' = Append(netlog, Step("imap_search", "ok"))
                 /\ ids' = found
                 /\ todo' = Selected(found, limit)
                 /\ pc' = IF todo' = <<>> THEN "imap_logout" ELSE "imap_fetch_header"
                 /\ response' = response
            \/ /\ netlog' = Append(netlog, Step("imap_search", "no"))   \* line 100
               /\ pc' = "imap_logout"
               /\ response' = response
               /\ UNCHANGED <<ids, todo>>
            \/ /\ ImapRaise("imap_search", "search")
               /\ UNCHANGED <<ids, todo>>
    /\ UNCHANGED <<ADMIN_TOKEN, endpoint, token, payload, msg, smtpOpen,
                   imapOpen, imapSelected, folder, limit, fetchLog, messages,
                   fetched>>

Visit(uid, outcome, hdr) == [uid |-> uid, outcome |-> outcome, hdr |-> hdr]

\* lines 105-124: one iteration of the loop, for uid = Head(todo).
\* M.fetch is outside the try; only email.message_from_bytes is inside it.
imap_fetch_header ==
    /\ pc = "imap_fetch_header"
    /\ LET uid == Head(todo) IN
       \/ \E hdr \in RawHeaders :
            /\ netlog' = Append(netlog, Step("imap_fetch_header", "ok"))
            /\ fetchLog' = Append(fetchLog, Visit(uid, "ok", hdr))
            /\ messages' = Append(messages, Summary(uid, hdr))
            /\ todo' = Tail(todo)
            /\ pc' = IF todo' = <<>> THEN "imap_logout" ELSE pc
            /\ response' = response
       \/ \E o \in {"no", "empty", "null", "parse_error"} :
            /\ netlog' = Append(netlog, Step("imap_fetch_header", o))
            /\ fetchLog' = Append(fetchLog, Visit(uid, o, NoHeaders))
            /\ messages' = messages
            /\ todo' = Tail(todo)
            /\ pc' = IF todo' = <<>> THEN "imap_logout" ELSE pc
            /\ response' = response
       \/ /\ ImapRaise("imap_fetch_header", "fetch")
          /\ fetchLog' = Append(fetchLog, Visit(uid, "raise", NoHeaders))
          /\ UNCHANGED <<messages, todo>>
    /\ UNCHANGED <<ADMIN_TOKEN, endpoint, token, payload, msg, smtpOpen,
                   imapOpen, imapSelected, folder, criteria, limit, ids,
                   fetched>>

\* line 155: M.fetch(id.encode(), "(RFC822)"); imaplib raises for FETCH when
\* no mailbox is selected
imap_fetch ==
    /\ pc = "imap_fetch"
    /\ IF ~ imapSelected
       THEN /\ ImapRaise("imap_fetch", "fetch")
            /\ fetched' = "raise"
       ELSE \/ \E o \in {"ok", "no", "empty", "null"} :
                 /\ netlog' = Append(netlog, Step("imap_fetch", o))
                 /\ fetched' = o
                 /\ pc' = "imap_logout"
                 /\ response' = response
            \/ /\ ImapRaise("imap_fetch", "fetch")
               /\ fetched' = "raise"
    /\ UNCHANGED <<ADMIN_TOKEN, endpoint, token, payload, msg, smtpOpen,
                   imapOpen, imapSelected, folder, criteria, limit, ids, todo,
                   fetchLog, messages>>

\* lines 141-142 (inbox) and 156-187 (get_message): M.logout() and the rest of
\* the handler
imap_logout ==
    /\ pc = "imap_logout"
    /\ netlog' = Append(netlog, Step("imap_logout", "ok"))
    /\ imapOpen' = FALSE
    /\ response' = IF endpoint = "inbox" THEN OkResponse
                   ELSE GetMessageResult(fetched)
    /\ pc' = "done"
    /\ UNCHANGED <<ADMIN_TOKEN, endpoint, token, payload, msg, smtpOpen,
                   imapSelected, folder, criteria, limit, ids, todo, fetchLog,
                   messages, fetched>>

----------------------------------------------------------------------------
(* The requests a client can make *)

\* the body of a request that fails the token gate is never read
send_request(P) ==
    /\ pc = "idle"
    /\ \E tok \in Tokens :
         \E p \in (IF require_admin_token(tok, ADMIN_TOKEN) THEN P ELSE {NoPayload}) :
            send_email(p, tok)

inbox_request ==
    /\ pc = "idle"
    /\ \E f \in Folders, lim \in Limits, tok \in Tokens : inbox(f, lim, tok)

message_request ==
    /\ pc = "idle"
    /\ \E tok \in Tokens : get_message(tok)

Next ==
    \/ send_request(SamplePayloads)
    \/ smtp_connect
    \/ smtp_starttls
    \/ smtp_login
    \/ smtp_send_message
    \/ inbox_request
    \/ message_request
    \/ imap_connect
    \/ imap_login
    \/ imap_select
    \/ imap_search
    \/ imap_fetch_header
    \/ imap_fetch
    \/ imap_logout

Spec == Init /\ [][Next]_vars

\* The composer alone, over every payload within the bounds
NextCompose == send_request(Payloads)

SpecCompose == Init /\ [][NextCompose]_vars

----------------------------------------------------------------------------
(* Vocabulary of the properties *)

SmtpOrder == <<"smtp_connect", "smtp_starttls", "smtp_login", "smtp_send_message">>

\* the shared-secret header is missing, empty or different from the secret
TokenRejected ==
    \/ ~ token.some
    \/ token.val = ""
    \/ token # ADMIN_TOKEN

Attempted(step, outcome) ==
    \E i \in 1..Len(netlog) : netlog[i] = Step(step, outcome)

Failed(step) ==
    \E i \in 1..Len(netlog) : netlog[i].step = step /\ netlog[i].outcome # "ok"

\* the send request passed the gate and the body check: msg is composed
Accepted == endpoint = "send" /\ pc # "idle" /\ response.status \notin {400, 401}

\* null or the empty string
Blank(o) == ~ o.some \/ o.val = <<>>

RECURSIVE OkSummaries(_)
OkSummaries(log) ==
    IF log = <<>> THEN <<>>
    ELSE (IF Head(log).outcome = "ok"
          THEN <<Summary(Head(log).uid, Head(log).hdr)>> ELSE <<>>)
         \o OkSummaries(Tail(log))

AllFetchesOk == \A i \in 1..Len(fetchLog) : fetchLog[i].outcome = "ok"

\* the L highest identifiers of list, highest first
Newest(list, L) == [i \in 1..L |-> list[Len(list) - i + 1]]

Uids(sums) == [i \in 1..Len(sums) |-> sums[i].uid]

----------------------------------------------------------------------------
(* Properties *)

\* C1: when the response is produced, every connection the request opened
\* has been closed (IMAP logout / SMTP close), whatever the outcome of each
\* network step.
C1_NoConnectionLeak == pc = "done" => (~ smtpOpen /\ ~ imapOpen)

\* C2: a message-read request whose fetch reports no data (status not OK,
\* empty data or a null first element) is answered 404, not 500.
C2_NotFoundIs404 ==
    (pc = "done" /\ endpoint = "message" /\ NoData(fetched))
        => response.status = 404

\* C3: with N identifiers found, 0 <= limit <= N and every header fetch
\* succeeding, the list holds exactly the summaries of the limit highest
\* identifiers, highest first, which is the first limit elements of the
\* limit = N result.
C3_LimitNewestFirst ==
    (/\ pc = "done" /\ endpoint = "inbox"
     /\ Attempted("imap_search", "ok") /\ AllFetchesOk
     /\ 0 <= limit /\ limit <= Len(ids))
        => /\ response.ok
           /\ Len(messages) = limit
           /\ Uids(messages) = [i \in 1..limit |-> ToString(Newest(ids, limit)[i])]
           /\ Uids(messages)
                = [i \in 1..limit |-> ToString(Selected(ids, Len(ids))[i])]

\* C4: a header fetch that fails for one selected identifier (non-OK, no
\* data, or an error raised by the fetch or by parsing) never fails the list
\* request: it answers ok with the summaries of the identifiers whose fetch
\* succeeded, in visiting (descending) order.
C4_PartialFailureTolerated ==
    (pc = "done" /\ endpoint = "inbox" /\ Attempted("imap_search", "ok"))
        => /\ response.ok
           /\ response.status = 200
           /\ Len(fetchLog) = Len(Selected(ids, limit))
           /\ messages = OkSummaries(fetchLog)

\* C5: a request whose token is missing, empty or different from the secret
\* (also when no secret is configured) is answered 401 and performs no
\* network step; the gate precedes the first network step.
C5_TokenGateBeforeNetwork ==
    (endpoint # "none" /\ TokenRejected)
        => /\ netlog = <<>>
           /\ pc = "done"
           /\ response.status = 401
           /\ ~ smtpOpen /\ ~ imapOpen

C5_Witness ==
    /\ pc = "done" /\ endpoint = "message" /\ response.status = 401
    /\ ~ ADMIN_TOKEN.some /\ ~ token.some

\* C6: in a list request, a login, folder selection or search that raises or
\* reports a non-OK status is answered 500, never ok with a message list.
C6_ListFailuresSurfaced ==
    (/\ pc = "done" /\ endpoint = "inbox"
     /\ \E st \in {"imap_connect", "imap_login", "imap_select", "imap_search"} :
            Failed(st))
        => (response.status = 500 /\ ~ response.ok)

\* C7: the relay steps of a send happen at most once each, in the order
\* connect, starttls, login, transmit; nothing is attempted after a failed
\* step; ok is answered only after four successful steps and a failed step
\* is answered 500 "SMTP send failed".
C7_RelaySequence ==
    endpoint = "send"
        => /\ Len(netlog) <= Len(SmtpOrder)
           /\ \A i \in 1..Len(netlog) : netlog[i].step = SmtpOrder[i]
           /\ \A i \in 1..(Len(netlog) - 1) : netlog[i].outcome = "ok"
           /\ response.ok
                => (/\ Len(netlog) = Len(SmtpOrder)
                    /\ \A i \in 1..Len(netlog) : netlog[i].outcome = "ok")
           /\ (\E st \in {SmtpOrder[i] : i \in 1..Len(SmtpOrder)} : Failed(st))
                => (/\ pc = "done"
                    /\ response = HTTPException(500, "SMTP send failed"))

C7_Witness ==
    /\ pc = "done" /\ endpoint = "send"
    /\ netlog = <<Step("smtp_connect", "ok"), Step("smtp_starttls", "ok"),
                  Step("smtp_login", "raise")>>
    /\ response.status = 500

\* C8 as stated: a field counts as present when it is non-null, the empty
\* string included.
C8_PresentMeansNonNull ==
    Accepted
        => IF payload.text.some /\ payload.html.some
           THEN msg.parts = <<Part("plain", payload.text.val),
                              Part("html", payload.html.val)>>
           ELSE IF payload.html.some
           THEN msg.parts = <<Part("plain", StripTags(payload.html.val)),
                              Part("html", payload.html.val)>>
           ELSE msg.parts = <<Part("plain", payload.text.val)>>

\* C8 amended: a field counts as present when it is non-null and not the
\* empty string. Both present: primary = text, alternative = html; only html:
\* primary = tag-stripped html, alternative = html verbatim; only text: one
\* part, the text.
C8_PresentMeansNonEmpty ==
    Accepted
        => IF ~ Blank(payload.text) /\ ~ Blank(payload.html)
           THEN msg.parts = <<Part("plain", payload.text.val),
                              Part("html", payload.html.val)>>
           ELSE IF ~ Blank(payload.html)
           THEN msg.parts = <<Part("plain", StripTags(payload.html.val)),
                              Part("html", payload.html.val)>>
           ELSE msg.parts = <<Part("plain", payload.text.val)>>

C8_Witness ==
    /\ Accepted
    /\ payload.text = Some(<<>>)
    /\ payload.html = Some(<<"<", "a", ">">>)
    /\ msg.parts = <<Part("plain", <<>>), Part("html", <<"<", "a", ">">>)>>

\* C9: bcc omitted: Bcc is exactly the sender address; bcc provided: Bcc is
\* exactly the provided list, the sender is not added and Bcc is set at most
\* once. To is the comma-joined recipient list; Cc is set only when cc was
\* provided.
C9_BccSelfCopy ==
    Accepted
        => /\ payload.bcc = None => msg.headers.Bcc = <<FROM_ADDR>>
           /\ payload.bcc # None
                => msg.headers.Bcc = (IF payload.bcc.val = <<>> THEN <<>>
                                      ELSE <<Join(payload.bcc.val)>>)
           /\ Len(msg.headers.Bcc) <= 1
           /\ msg.headers.To = <<Join(payload.to)>>
           /\ msg.headers.Cc # <<>>
                => (payload.cc.some /\ msg.headers.Cc = <<Join(payload.cc.val)>>)

C9_Witness ==
    /\ Accepted
    /\ payload.bcc = Some(<<"b@y.org", "a@x.com">>)
    /\ msg.headers.Bcc = <<"b@y.org, a@x.com">>
    /\ payload.cc = None /\ msg.headers.Cc = <<>>

\* C10: an authorized send whose text and html are both null or empty is
\* answered 400 before any relay step, whatever to, subject, cc and bcc are;
\* a send with a non-empty text or html is never answered 400.
C10_EmptyBodyRejected ==
    (endpoint = "send" /\ ~ TokenRejected)
        => /\ (Blank(payload.text) /\ Blank(payload.html))
                => (/\ pc = "done"
                    /\ response = HTTPException(400, "Provide text or html body")
                    /\ netlog = <<>> /\ ~ smtpOpen)
           /\ ~ (Blank(payload.text) /\ Blank(payload.html))
                => response.status # 400

C10_Witness ==
    /\ pc = "done" /\ endpoint = "send" /\ response.status = 400
    /\ payload.text = Some(<<>>) /\ payload.html = None
    /\ payload.cc = Some(<<"b@y.org">>)
    /\ netlog = <<>>

====
